---- MODULE Spec2Model ----
(***************************************************************************)
(* Model of the badminton club server (server/storage.ts DatabaseStorage   *)
(* and the Express routes that call it): the players and matches tables    *)
(* and the skill-rating engine that runs on them.                          *)
(*                                                                         *)
(* Representation.  Row ids are serial, so the players table is a sequence *)
(* indexed by player id.  The matches table is a sequence in playedAt      *)
(* order (createMatch stamps playedAt = now, so it appends); a match is    *)
(* addressed by its position.  Timestamps are logical: "now" is one more   *)
(* than every timestamp stored so far.                                     *)
(*                                                                         *)
(* Arithmetic.  The engine's scores are rationals with denominator 400     *)
(* (skill factors are multiples of 1/40, point factors of 1/10), so every  *)
(* score is kept as the integer 400 * score and the +-0.5 thresholds are   *)
(* compared on integers.                                                   *)
(***************************************************************************)
EXTENDS Integers, Sequences, FiniteSets, TLC

\* ---------------------------------------------------------------- bounds
MaxPlayers == 4
MaxMatches == 6
MaxAdminMatches == 5

\* SQL NULL of the nullable integer / timestamp columns
NULL == 0

\* ---------------------------------------------------------------- inputs
\* request bodies the model draws from (valid and invalid ones)
SkillInputs == {0, 1, 10, 11}
SetupInputs == {5, 11}
AdminSkillInputs == {0, 5}
TeamA == <<1, 2, 3, 4>>
TeamB == <<4, 1, 2, 3>>
MatchInputs ==
    { <<TeamA, <<21, 15>>, 1>>, <<TeamB, <<21, 21>>, 2>>,
      <<TeamA, <<21, 15>>, 3>>, <<TeamA, <<-1, 21>>, 1>>,
      <<(<<1, 1, 3, 4>>), <<21, 15>>, 1>>, <<(<<1, 2, 3, 9>>), <<21, 15>>, 1>> }

VARIABLES
    players,    \* the players table: Seq of rows, index = id
    matches,    \* the matches table: Seq of rows in playedAt order
    procs,      \* the request handlers in flight, each at one of its awaits
    auth        \* the otp_codes table, the sessions and storage.currentUser

vars == <<players, matches, procs, auth>>

\* ------------------------------------------------------------ schema.ts
ValidSkillLevel(s) == s >= 1 /\ s <= 10

ValidScore(s) == s >= 0

ValidWinnerId(w) == w >= 1 /\ w <= 2

\* ------------------------------------------------------------ helpers
Max(a, b) == IF a >= b THEN a ELSE b

Min(a, b) == IF a <= b THEN a ELSE b

Abs(a) == IF a >= 0 THEN a ELSE -a

Reverse(s) == [i \in 1..Len(s) |-> s[Len(s) + 1 - i]]

\* new Date(): later than every timestamp in the table
Now(db) ==
    LET stamps == {db[i].lastSkillUpdate : i \in 1..Len(db)} \cup {0}
    IN  1 + (CHOOSE t \in stamps : \A u \in stamps : u <= t)

\* allPlayers.find(p => p.id === id) on a getAllPlayers() result
Found(allPlayers, id) == id \in 1..Len(allPlayers) /\ allPlayers[id].isActive

ActiveIds(db) == {i \in 1..Len(db) : db[i].isActive}

\* ------------------------------------------------------ rating engine
Involves(m, pid) ==
    \/ m.teamAPlayer1Id = pid
    \/ m.teamAPlayer2Id = pid
    \/ m.teamBPlayer1Id = pid
    \/ m.teamBPlayer2Id = pid

\* allMatches.filter(...).sort(playedAt descending): most recent first
PlayerMatches(allMatches, pid) ==
    Reverse(SelectSeq(allMatches, LAMBDA m : Involves(m, pid)))

IsTeamA(m, pid) == m.teamAPlayer1Id = pid \/ m.teamAPlayer2Id = pid

PlayerWon(m, pid) ==
    LET teamWon == IF m.winnerId = 1 THEN "A" ELSE "B"
    IN  (IsTeamA(m, pid) /\ teamWon = "A") \/ (~IsTeamA(m, pid) /\ teamWon = "B")

\* an opponentSkillLevels array that holds the player's own level for each
\* opponent slot that is not found
OpponentSkillLevelsOwnForMissing(m, pid, allPlayers) ==
    LET o1 == IF IsTeamA(m, pid) THEN m.teamBPlayer1Id ELSE m.teamAPlayer1Id
        o2 == IF IsTeamA(m, pid) THEN m.teamBPlayer2Id ELSE m.teamAPlayer2Id
        own == allPlayers[pid].skillLevel
    IN  << IF Found(allPlayers, o1) THEN allPlayers[o1].skillLevel ELSE own,
           IF Found(allPlayers, o2) THEN allPlayers[o2].skillLevel ELSE own >>

\* the opponentSkillLevels array: one entry per opponent slot that is found
OpponentSkillLevels(m, pid, allPlayers) ==
    LET o1 == IF IsTeamA(m, pid) THEN m.teamBPlayer1Id ELSE m.teamAPlayer1Id
        o2 == IF IsTeamA(m, pid) THEN m.teamBPlayer2Id ELSE m.teamAPlayer2Id
        l1 == IF Found(allPlayers, o1) THEN <<allPlayers[o1].skillLevel>> ELSE <<>>
        l2 == IF Found(allPlayers, o2) THEN <<allPlayers[o2].skillLevel>> ELSE <<>>
    IN  l1 \o l2

\* 2 * avgOpponentSkill: the mean of the array, the player's own level when
\* the array is empty
AvgOpponentSkill2(m, pid, allPlayers) ==
    LET lv == OpponentSkillLevels(m, pid, allPlayers)
    IN  IF Len(lv) = 2 THEN lv[1] + lv[2]
        ELSE IF Len(lv) = 1 THEN 2 * lv[1]
        ELSE 2 * allPlayers[pid].skillLevel

\* 2 * skillDifference = 2 * (avgOpponentSkill - player.skillLevel)
SkillDifference2(m, pid, allPlayers) ==
    AvgOpponentSkill2(m, pid, allPlayers) - 2 * allPlayers[pid].skillLevel

\* pointDifference = playerScore - opponentScore
PointDifference(m, pid) ==
    IF IsTeamA(m, pid) THEN m.teamAScore - m.teamBScore
    ELSE m.teamBScore - m.teamAScore

\* 400 * winScore, d2 = 2 * skillDifference
WinScore400(d2, pd) ==
    LET skill40 == IF d2 > 0 THEN 40 + 5 * d2
                   ELSE IF d2 < 0 THEN 40 - 3 * Abs(d2)
                   ELSE 40
        point10 == 10 + Min(pd, 5)
    IN  skill40 * point10

\* 400 * lossScore, d2 = 2 * skillDifference
LossScore400(d2, pd) ==
    LET skill40 == IF d2 > 0 THEN 40 - 4 * d2
                   ELSE IF d2 < 0 THEN 40 + 6 * Abs(d2)
                   ELSE 40
        point10 == 10 + Max(Abs(pd), 5)
    IN  -(skill40 * point10)

\* 400 * matchScore of one match of the window
MatchScore400(m, pid, allPlayers) ==
    IF PlayerWon(m, pid)
    THEN WinScore400(SkillDifference2(m, pid, allPlayers), PointDifference(m, pid))
    ELSE LossScore400(SkillDifference2(m, pid, allPlayers), PointDifference(m, pid))

\* an auto-update threshold one match too low
ShouldAutoUpdateAtFour(playerMatches) == Len(playerMatches) >= 4

ShouldAutoUpdate(playerMatches) == Len(playerMatches) >= 5

MatchesToAnalyze(playerMatches) ==
    IF ShouldAutoUpdate(playerMatches) THEN 5 ELSE Min(Len(playerMatches), 3)

RecentMatches(playerMatches) ==
    SubSeq(playerMatches, 1, Min(Len(playerMatches), MatchesToAnalyze(playerMatches)))

RECURSIVE SumScore400(_, _, _)
\* 400 * weightedPerformanceScore over the window
SumScore400(window, pid, allPlayers) ==
    IF window = <<>> THEN 0
    ELSE MatchScore400(Head(window), pid, allPlayers)
         + SumScore400(Tail(window), pid, allPlayers)

\* avgPerformance > 0.5, with avgPerformance = sum / totalWeight
PerformanceAbove(sum400, totalWeight) == totalWeight > 0 /\ 2 * sum400 > 400 * totalWeight

\* avgPerformance < -0.5
PerformanceBelow(sum400, totalWeight) == totalWeight > 0 /\ 2 * sum400 < -(400 * totalWeight)

\* newSkillLevel of the engine for one player with playerMatches.length >= 3
NewSkillLevel(pid, allPlayers, allMatches) ==
    LET window == RecentMatches(PlayerMatches(allMatches, pid))
        sum400 == SumScore400(window, pid, allPlayers)
        level == allPlayers[pid].skillLevel
        target == IF PerformanceAbove(sum400, Len(window)) /\ level < 10
                     THEN Min(level + 1, 10)
                  ELSE IF PerformanceBelow(sum400, Len(window)) /\ level > 1
                     THEN Max(level - 1, 1)
                  ELSE level
        bounded == Max(1, Min(10, target))
    IN  IF Abs(bounded - level) > 1
        THEN level + (IF bounded > level THEN 1 ELSE -1)
        ELSE bounded

\* a write that stores the requested level as it is
SkillLevelWriteUnclamped(row, newSkillLevel, now) ==
    [row EXCEPT !.previousSkillLevel = row.skillLevel,
                !.skillLevel = newSkillLevel,
                !.lastSkillUpdate = now]

\* the row written by updatePlayerSkillLevel for the row it read
SkillLevelWrite(row, newSkillLevel, now) ==
    LET boundedSkillLevel == Max(1, Min(10, newSkillLevel))
        limited == IF Abs(boundedSkillLevel - row.skillLevel) > 1
                   THEN (IF boundedSkillLevel > row.skillLevel
                         THEN row.skillLevel + 1 ELSE row.skillLevel - 1)
                   ELSE boundedSkillLevel
    IN  [row EXCEPT !.previousSkillLevel = row.skillLevel,
                    !.skillLevel = limited,
                    !.lastSkillUpdate = now]

\* an update that is carried out a second time
UpdatePlayerSkillLevelTwice(db, playerId, newSkillLevel) ==
    IF playerId \notin 1..Len(db) THEN db
    ELSE LET first == SkillLevelWrite(db[playerId], newSkillLevel, Now(db))
         IN  [db EXCEPT ![playerId] = SkillLevelWrite(first, newSkillLevel, Now(db))]

UpdatePlayerSkillLevel(db, playerId, newSkillLevel) ==
    IF playerId \notin 1..Len(db) THEN db
    ELSE [db EXCEPT ![playerId] = SkillLevelWrite(db[playerId], newSkillLevel, Now(db))]

\* a loop body that calls updatePlayerSkillLevel for every player with 5
\* or more matches, changed or not
CommitLevelAlways(i, allPlayers, allMatches) ==
    LET playerMatches == PlayerMatches(allMatches, i)
    IN  IF /\ allPlayers[i].isActive
           /\ Len(playerMatches) >= 3
           /\ ShouldAutoUpdate(playerMatches)
        THEN NewSkillLevel(i, allPlayers, allMatches)
        ELSE NULL

\* the newSkillLevel that the iteration of checkForSkillLevelUpdates for
\* player i hands to updatePlayerSkillLevel, NULL when it does not call it
CommitLevel(i, allPlayers, allMatches) ==
    LET playerMatches == PlayerMatches(allMatches, i)
        newSkillLevel == NewSkillLevel(i, allPlayers, allMatches)
    IN  IF /\ allPlayers[i].isActive
           /\ Len(playerMatches) >= 3
           /\ ShouldAutoUpdate(playerMatches)
           /\ newSkillLevel # allPlayers[i].skillLevel
        THEN newSkillLevel
        ELSE NULL

Commits(i, allPlayers, allMatches) == CommitLevel(i, allPlayers, allMatches) # NULL

RECURSIVE PassFrom(_, _, _, _)
\* the loop of checkForSkillLevelUpdates from player i on: allPlayers and
\* allMatches are the two reads at the start, db is the table being written
PassFrom(db, allPlayers, allMatches, i) ==
    IF i > Len(allPlayers) THEN db
    ELSE LET newSkillLevel == CommitLevel(i, allPlayers, allMatches)
         IN  IF newSkillLevel # NULL
             THEN PassFrom(UpdatePlayerSkillLevel(db, i, newSkillLevel),
                           allPlayers, allMatches, i + 1)
             ELSE PassFrom(db, allPlayers, allMatches, i + 1)

CheckForSkillLevelUpdates(db, allMatches) == PassFrom(db, db, allMatches, 1)

RECURSIVE PassOverLive(_, _, _, _, _)
\* a loop that scores each player from the table being written
PassOverLive(db, allPlayers, allMatches, order, k) ==
    IF k > Len(allPlayers) THEN db
    ELSE LET newSkillLevel == CommitLevel(order[k], db, allMatches)
         IN  IF newSkillLevel # NULL
             THEN PassOverLive(UpdatePlayerSkillLevel(db, order[k], newSkillLevel),
                               allPlayers, allMatches, order, k + 1)
             ELSE PassOverLive(db, allPlayers, allMatches, order, k + 1)

RECURSIVE PassOver(_, _, _, _, _)
\* the loop of checkForSkillLevelUpdates when getAllPlayers() returns the
\* rows in the order given (the select has no ORDER BY), from position k on
PassOver(db, allPlayers, allMatches, order, k) ==
    IF k > Len(allPlayers) THEN db
    ELSE LET newSkillLevel == CommitLevel(order[k], allPlayers, allMatches)
         IN  IF newSkillLevel # NULL
             THEN PassOver(UpdatePlayerSkillLevel(db, order[k], newSkillLevel),
                           allPlayers, allMatches, order, k + 1)
             ELSE PassOver(db, allPlayers, allMatches, order, k + 1)

\* first loop of recalculateAllSkillLevels: backfill originalSkillLevel
BackfillOriginal(row) ==
    IF row.isActive /\ row.originalSkillLevel = NULL
    THEN [row EXCEPT !.originalSkillLevel = row.skillLevel]
    ELSE row

\* the reset without the "|| player.skillLevel" fallback
ResetRowNoFallback(row, read) ==
    IF ~read.isActive THEN row
    ELSE [row EXCEPT !.skillLevel = read.originalSkillLevel,
                     !.previousSkillLevel = NULL,
                     !.lastSkillUpdate = NULL]

\* a reset that leaves previousSkillLevel as it is
ResetRowKeepsPrevious(row, read) ==
    IF ~read.isActive THEN row
    ELSE [row EXCEPT !.skillLevel = IF read.originalSkillLevel # NULL
                                    THEN read.originalSkillLevel
                                    ELSE read.skillLevel,
                     !.lastSkillUpdate = NULL]

\* second loop: player.originalSkillLevel || player.skillLevel, from the
\* rows read before the first loop
ResetRow(row, read) ==
    IF ~read.isActive THEN row
    ELSE [row EXCEPT !.skillLevel = IF read.originalSkillLevel # NULL
                                    THEN read.originalSkillLevel
                                    ELSE read.skillLevel,
                     !.previousSkillLevel = NULL,
                     !.lastSkillUpdate = NULL]

\* a recalculation that forgets the reset and only runs the pass
RecalculateWithoutReset(db, allMatches) == CheckForSkillLevelUpdates(db, allMatches)

RecalculateAllSkillLevels(db, allMatches) ==
    LET filled == [i \in 1..Len(db) |-> BackfillOriginal(db[i])]
        reset == [i \in 1..Len(db) |-> ResetRow(filled[i], db[i])]
    IN  CheckForSkillLevelUpdates(reset, allMatches)

\* ------------------------------------------------------------ storage
NewPlayerRow(skill, original, role, now) ==
    [skillLevel |-> skill, originalSkillLevel |-> original,
     previousSkillLevel |-> NULL, role |-> role, isActive |-> TRUE,
     lastSkillUpdate |-> now]

\* setupInitialManager: the insert leaves originalSkillLevel unset
SetupInitialManagerRow(db, skill) == NewPlayerRow(skill, NULL, "manager", Now(db))

\* createPlayer: originalSkillLevel = skillLevel
CreatePlayerRow(db, skill) == NewPlayerRow(skill, skill, "player", Now(db))

IsInitialized(db) == \E i \in 1..Len(db) : db[i].role = "manager"

MatchRow(team, score, winner) ==
    [teamAPlayer1Id |-> team[1], teamAPlayer2Id |-> team[2],
     teamBPlayer1Id |-> team[3], teamBPlayer2Id |-> team[4],
     teamAScore |-> score[1], teamBScore |-> score[2], winnerId |-> winner]

\* .set(updateData): the fields present in the partial row replace the old
SetFields(row, updateData) ==
    [f \in DOMAIN row |-> IF f \in DOMAIN updateData THEN updateData[f] ELSE row[f]]

RemoveAt(s, i) == SubSeq(s, 1, i - 1) \o SubSeq(s, i + 1, Len(s))

\* ------------------------------------------------------- getPlayerStats
\* a field the response leaves undefined
Undefined == "undefined"

\* a rate that drops the fraction instead of rounding it
TruncatedRate(wins, length) ==
    IF length > 0 THEN (100 * wins) \div length ELSE 0

\* Math.round((wins / length) * 100), 0 for an empty list
RoundedRate(wins, length) ==
    IF length > 0 THEN (200 * wins + length) \div (2 * length) ELSE 0

Wins(playerMatches, pid) ==
    Cardinality({k \in 1..Len(playerMatches) : PlayerWon(playerMatches[k], pid)})

RECURSIVE PointsFor(_, _)
PointsFor(playerMatches, pid) ==
    IF playerMatches = <<>> THEN 0
    ELSE (IF IsTeamA(Head(playerMatches), pid) THEN Head(playerMatches).teamAScore
                                              ELSE Head(playerMatches).teamBScore)
         + PointsFor(Tail(playerMatches), pid)

RECURSIVE PointsAgainst(_, _)
PointsAgainst(playerMatches, pid) ==
    IF playerMatches = <<>> THEN 0
    ELSE (IF IsTeamA(Head(playerMatches), pid) THEN Head(playerMatches).teamBScore
                                              ELSE Head(playerMatches).teamAScore)
         + PointsAgainst(Tail(playerMatches), pid)

\* a recent window of the length the rating decision uses
StatsRecentMatchesAsDecision(playerMatches) == RecentMatches(playerMatches)

\* "Get last 3 matches for recent performance analysis"
StatsRecentMatches(playerMatches) == SubSeq(playerMatches, 1, Min(Len(playerMatches), 3))

SkillLevelChange(player) ==
    IF player.previousSkillLevel = NULL THEN Undefined
    ELSE IF player.skillLevel > player.previousSkillLevel THEN "increased"
    ELSE IF player.skillLevel < player.previousSkillLevel THEN "decreased"
    ELSE "unchanged"

\* a trend with strict thresholds
RecentPerformanceStrict(recentMatches, pid) ==
    LET recentWinRate == RoundedRate(Wins(recentMatches, pid), Len(recentMatches))
    IN  IF Len(recentMatches) >= 3
        THEN IF recentWinRate > 67 THEN "improving"
             ELSE IF recentWinRate < 33 THEN "declining"
             ELSE "stable"
        ELSE Undefined

RecentPerformance(recentMatches, pid) ==
    LET recentWinRate == RoundedRate(Wins(recentMatches, pid), Len(recentMatches))
    IN  IF Len(recentMatches) >= 3
        THEN IF recentWinRate >= 67 THEN "improving"
             ELSE IF recentWinRate <= 33 THEN "declining"
             ELSE "stable"
        ELSE Undefined

\* 20 * the contribution of one match to suggestionScore
SuggestionScore20(m, pid, allPlayers) ==
    LET d2 == SkillDifference2(m, pid, allPlayers)
    IN  IF PlayerWon(m, pid)
        THEN IF d2 >= 0 THEN 20 + 3 * d2 ELSE 20 - 2 * Abs(d2)
        ELSE IF d2 <= 0 THEN -(20 + 3 * Abs(d2)) ELSE -(20 - 2 * d2)

RECURSIVE SumSuggestionScore20(_, _, _)
SumSuggestionScore20(recentMatches, pid, allPlayers) ==
    IF recentMatches = <<>> THEN 0
    ELSE SuggestionScore20(Head(recentMatches), pid, allPlayers)
         + SumSuggestionScore20(Tail(recentMatches), pid, allPlayers)

\* suggestion and suggestedSkillLevel: avgWeightedPerformance against 0.4
\* and -0.4, i.e. 20 * suggestionScore against 8 * recentMatches.length
StatsSuggestion(recentMatches, pid, allPlayers) ==
    LET sum20 == SumSuggestionScore20(recentMatches, pid, allPlayers)
        level == allPlayers[pid].skillLevel
    IN  IF Len(recentMatches) >= 3
        THEN IF sum20 > 8 * Len(recentMatches)
             THEN [suggestion |-> "increase", suggestedSkillLevel |-> Min(10, level + 1)]
             ELSE IF sum20 < -(8 * Len(recentMatches))
             THEN [suggestion |-> "decrease", suggestedSkillLevel |-> Max(1, level - 1)]
             ELSE [suggestion |-> "maintain", suggestedSkillLevel |-> level]
        ELSE [suggestion |-> Undefined, suggestedSkillLevel |-> NULL]

\* the record getPlayerStats pushes for one player of getAllPlayers()
PlayerStats(pid, allPlayers, allMatches) ==
    LET playerMatches == PlayerMatches(allMatches, pid)
        recentMatches == StatsRecentMatches(playerMatches)
        wins == Wins(playerMatches, pid)
        pointsFor == PointsFor(playerMatches, pid)
        pointsAgainst == PointsAgainst(playerMatches, pid)
        suggested == StatsSuggestion(recentMatches, pid, allPlayers)
    IN  [playerId |-> pid,
         skillLevel |-> allPlayers[pid].skillLevel,
         previousSkillLevel |-> allPlayers[pid].previousSkillLevel,
         skillLevelChange |-> SkillLevelChange(allPlayers[pid]),
         role |-> allPlayers[pid].role,
         totalMatches |-> Len(playerMatches),
         wins |-> wins,
         losses |-> Len(playerMatches) - wins,
         winRate |-> RoundedRate(wins, Len(playerMatches)),
         pointsFor |-> pointsFor,
         pointsAgainst |-> pointsAgainst,
         pointDifference |-> pointsFor - pointsAgainst,
         suggestedSkillLevel |-> suggested.suggestedSkillLevel,
         suggestion |-> suggested.suggestion,
         recentPerformance |-> RecentPerformance(recentMatches, pid)]

RECURSIVE StatsFrom(_, _, _)
\* the loop over allPlayers, from index i on
StatsFrom(i, allPlayers, allMatches) ==
    IF i > Len(allPlayers) THEN <<>>
    ELSE IF allPlayers[i].isActive
         THEN <<PlayerStats(i, allPlayers, allMatches)>> \o StatsFrom(i + 1, allPlayers, allMatches)
         ELSE StatsFrom(i + 1, allPlayers, allMatches)

\* getPlayerStats(): one record per active player
GetPlayerStats(allPlayers, allMatches) == StatsFrom(1, allPlayers, allMatches)

\* ------------------------------------------------ getSkillLevelSuggestions
\* a matchesNeeded field counted from the analysed window
MatchesNeededFromWindow(playerMatches) ==
    IF Len(playerMatches) >= 5 THEN NULL ELSE 5 - Min(Len(playerMatches), 3)

\* ...(shouldAutoUpdate ? {} : { matchesNeeded: 5 - playerMatches.length })
MatchesNeeded(playerMatches) ==
    IF ShouldAutoUpdate(playerMatches) THEN NULL ELSE 5 - Len(playerMatches)

\* the suggestion pushed for a player whose suggestedLevel differs
Suggestion(pid, allPlayers, allMatches) ==
    LET playerMatches == PlayerMatches(allMatches, pid)
    IN  [playerId |-> pid,
         currentLevel |-> allPlayers[pid].skillLevel,
         suggestedLevel |-> NewSkillLevel(pid, allPlayers, allMatches),
         matchesAnalyzed |-> MatchesToAnalyze(playerMatches),
         matchesNeeded |-> MatchesNeeded(playerMatches)]

RECURSIVE SuggestionsFrom(_, _, _)
\* the loop over allPlayers, from index i on
SuggestionsFrom(i, allPlayers, allMatches) ==
    IF i > Len(allPlayers) THEN <<>>
    ELSE IF /\ allPlayers[i].isActive
            /\ Len(PlayerMatches(allMatches, i)) >= 3
            /\ NewSkillLevel(i, allPlayers, allMatches) # allPlayers[i].skillLevel
         THEN <<Suggestion(i, allPlayers, allMatches)>>
                  \o SuggestionsFrom(i + 1, allPlayers, allMatches)
         ELSE SuggestionsFrom(i + 1, allPlayers, allMatches)

\* getSkillLevelSuggestions()
GetSkillLevelSuggestions(allPlayers, allMatches) == SuggestionsFrom(1, allPlayers, allMatches)

\* ------------------------------------------------------------- routes
\* "Determine winner based on scores"
WinnerOf(a, b) == IF a > b THEN 1 ELSE 2

\* the two request handlers the event loop interleaves
Procs == {1, 2}

\* a handler with no request in flight
IdleProc ==
    [pc |-> "idle", allPlayers |-> <<>>, allMatches |-> <<>>, i |-> 0,
     read |-> <<>>, before |-> <<>>, served |-> 0]

\* no code issued, nobody logged in, currentUser = null
NoAuth == [otpCodes |-> {}, sessions |-> {}, currentUser |-> NULL]

Init ==
    /\ players = <<>>
    /\ matches = <<>>
    /\ procs = [p \in Procs |-> IdleProc]
    /\ auth = NoAuth

\* POST /api/auth/setup
PostSetup(skill) ==
    /\ Len(players) < MaxPlayers
    /\ IF ~IsInitialized(players) /\ ValidSkillLevel(skill)
       THEN players' = Append(players, SetupInitialManagerRow(players, skill))
       ELSE UNCHANGED players
    /\ UNCHANGED <<matches, procs, auth>>

\* POST /api/players
PostPlayer(skill) ==
    /\ Len(players) < MaxPlayers
    /\ IF ValidSkillLevel(skill)
       THEN players' = Append(players, CreatePlayerRow(players, skill))
       ELSE UNCHANGED players
    /\ UNCHANGED <<matches, procs, auth>>

\* PUT /api/players/:id with a skillLevel
PutPlayer(id, skill) ==
    /\ IF ValidSkillLevel(skill) /\ id \in 1..Len(players)
       THEN players' = [players EXCEPT ![id].skillLevel = skill]
       ELSE UNCHANGED players
    /\ UNCHANGED <<matches, procs, auth>>

\* DELETE /api/players/:id
DelPlayer(id) ==
    /\ id \in 1..Len(players)
    /\ players' = [players EXCEPT ![id].isActive = FALSE]
    /\ UNCHANGED <<matches, procs, auth>>

\* storage.createMatch: insert, then the incremental pass
CreateMatch(row) ==
    LET inserted == Append(matches, row)
    IN  /\ matches' = inserted
        /\ players' = CheckForSkillLevelUpdates(players, inserted)
        /\ UNCHANGED <<procs, auth>>

\* storage.updateMatch on an existing row: update, then reset and replay
UpdateMatch(id, updateData) ==
    LET updated == [matches EXCEPT ![id] = SetFields(matches[id], updateData)]
    IN  /\ id \in 1..Len(matches)
        /\ matches' = updated
        /\ players' = RecalculateAllSkillLevels(players, updated)
        /\ UNCHANGED <<procs, auth>>

\* storage.deleteMatch on an existing row: delete, then reset and replay
DeleteMatch(id) ==
    LET remaining == RemoveAt(matches, id)
    IN  /\ id \in 1..Len(matches)
        /\ matches' = remaining
        /\ players' = RecalculateAllSkillLevels(players, remaining)
        /\ UNCHANGED <<procs, auth>>

\* POST /api/matches (the winnerId of the body is overwritten)
PostMatch(team, score, bodyWinner) ==
    /\ Len(matches) < MaxMatches
    /\ IF /\ ValidScore(score[1]) /\ ValidScore(score[2]) /\ ValidWinnerId(bodyWinner)
          /\ \A k \in 1..4 : Found(players, team[k])
          /\ Cardinality({team[k] : k \in 1..4}) = 4
       THEN CreateMatch(MatchRow(team, score, WinnerOf(score[1], score[2])))
       ELSE UNCHANGED <<matches, players, procs, auth>>

\* the winner recomputation of PUT /api/matches/:id
WithWinner(matchData) ==
    IF "teamAScore" \in DOMAIN matchData /\ "teamBScore" \in DOMAIN matchData
    THEN [f \in DOMAIN matchData \cup {"winnerId"} |->
            IF f = "winnerId" THEN WinnerOf(matchData.teamAScore, matchData.teamBScore)
            ELSE matchData[f]]
    ELSE matchData

ValidPartialMatch(matchData) ==
    /\ "teamAScore" \in DOMAIN matchData => ValidScore(matchData.teamAScore)
    /\ "teamBScore" \in DOMAIN matchData => ValidScore(matchData.teamBScore)
    /\ "winnerId" \in DOMAIN matchData => ValidWinnerId(matchData.winnerId)

\* PUT /api/matches/:id
PutMatch(id, matchData) ==
    IF ValidPartialMatch(matchData) /\ id \in 1..Len(matches)
    THEN UpdateMatch(id, WithWinner(matchData))
    ELSE UNCHANGED <<matches, players, procs, auth>>

\* DELETE /api/matches/:id
DelMatch(id) ==
    IF id \in 1..Len(matches)
    THEN DeleteMatch(id)
    ELSE UNCHANGED <<matches, players, procs, auth>>

\* POST /api/skill-levels/update
PostSkillLevelsUpdate ==
    /\ players' = CheckForSkillLevelUpdates(players, matches)
    /\ UNCHANGED <<matches, procs, auth>>

\* -------------------------------------------- handlers, await by await
\* Each action below is the part of a handler between two awaits: the
\* store call that the await resumes from and the synchronous code up to
\* the next store call.
Set(p, f, v) == [procs EXCEPT ![p][f] = v]

AtPc(p, pc) == procs[p].pc = pc

\* entering a handler: before records the table the request found
Enter(p, pc) == [procs EXCEPT ![p].pc = pc, ![p].before = players]

\* the next index from i on that satisfies P, or 0
NextIndex(i, n, P(_)) ==
    LET C == {j \in i..n : P(j)}
    IN  IF C = {} THEN 0 ELSE CHOOSE j \in C : \A k \in C : j <= k

\* POST /api/matches: validation and storage.createMatch's insert
StartCreateMatch(p, team, score, bodyWinner) ==
    /\ AtPc(p, "idle")
    /\ ValidScore(score[1]) /\ ValidScore(score[2]) /\ ValidWinnerId(bodyWinner)
    /\ \A k \in 1..4 : Found(players, team[k])
    /\ Cardinality({team[k] : k \in 1..4}) = 4
    /\ matches' = Append(matches, MatchRow(team, score, WinnerOf(score[1], score[2])))
    /\ procs' = Enter(p, "getAllPlayers")
    /\ UNCHANGED <<players, auth>>

\* PUT /api/matches/:id: storage.updateMatch's update of an existing row
StartUpdateMatch(p, id, matchData) ==
    /\ AtPc(p, "idle")
    /\ ValidPartialMatch(matchData) /\ id \in 1..Len(matches)
    /\ matches' = [matches EXCEPT ![id] = SetFields(matches[id], WithWinner(matchData))]
    /\ procs' = Enter(p, "recalculate")
    /\ UNCHANGED <<players, auth>>

\* DELETE /api/matches/:id: storage.deleteMatch's delete of an existing row
StartDeleteMatch(p, id) ==
    /\ AtPc(p, "idle")
    /\ id \in 1..Len(matches)
    /\ matches' = RemoveAt(matches, id)
    /\ procs' = Enter(p, "recalculate")
    /\ UNCHANGED <<players, auth>>

\* POST /api/skill-levels/update
StartSkillLevelsUpdate(p) ==
    /\ AtPc(p, "idle")
    /\ procs' = Enter(p, "getAllPlayers")
    /\ UNCHANGED <<players, matches, auth>>

\* recalculateAllSkillLevels: const allPlayers = await this.getAllPlayers()
RecalculateRead(p) ==
    /\ AtPc(p, "recalculate")
    /\ procs' = [procs EXCEPT ![p].pc = "backfill", ![p].allPlayers = players, ![p].i = 1]
    /\ UNCHANGED <<players, matches, auth>>

\* first loop: the next update of an unset originalSkillLevel, or on to the
\* second loop
Backfill(p) ==
    LET read == procs[p].allPlayers
        j == NextIndex(procs[p].i, Len(read),
                       LAMBDA k : read[k].isActive /\ read[k].originalSkillLevel = NULL)
    IN  /\ AtPc(p, "backfill")
        /\ IF j = 0
           THEN /\ procs' = [procs EXCEPT ![p].pc = "reset", ![p].i = 1]
                /\ UNCHANGED players
           ELSE /\ players' = [players EXCEPT ![j].originalSkillLevel = read[j].skillLevel]
                /\ procs' = Set(p, "i", j + 1)
        /\ UNCHANGED <<matches, auth>>

\* second loop: the next reset, or on to checkForSkillLevelUpdates
Reset(p) ==
    LET read == procs[p].allPlayers
        j == NextIndex(procs[p].i, Len(read), LAMBDA k : read[k].isActive)
    IN  /\ AtPc(p, "reset")
        /\ IF j = 0
           THEN /\ procs' = Set(p, "pc", "getAllPlayers")
                /\ UNCHANGED players
           ELSE /\ players' = [players EXCEPT ![j] = ResetRow(players[j], read[j])]
                /\ procs' = Set(p, "i", j + 1)
        /\ UNCHANGED <<matches, auth>>

\* checkForSkillLevelUpdates: const allPlayers = await this.getAllPlayers()
PassReadPlayers(p) ==
    /\ AtPc(p, "getAllPlayers")
    /\ procs' = [procs EXCEPT ![p].pc = "getAllMatches", ![p].allPlayers = players]
    /\ UNCHANGED <<players, matches, auth>>

\* const allMatches = await db.select().from(matches), then the loop up to
\* its first updatePlayerSkillLevel
PassReadMatches(p) ==
    /\ AtPc(p, "getAllMatches")
    /\ procs' = [procs EXCEPT ![p].pc = "loop", ![p].allMatches = matches, ![p].i = 1]
    /\ UNCHANGED <<players, matches, auth>>

\* updatePlayerSkillLevel: const player = await this.getPlayer(playerId) for
\* the next player the loop commits, or the end of the handler
PassGetPlayer(p) ==
    LET j == NextIndex(procs[p].i, Len(procs[p].allPlayers),
                       LAMBDA k : Commits(k, procs[p].allPlayers, procs[p].allMatches))
    IN  /\ AtPc(p, "loop")
        /\ procs' = IF j = 0
                    THEN [procs EXCEPT ![p] = [IdleProc EXCEPT !.served = procs[p].served + 1]]
                    ELSE [procs EXCEPT ![p].pc = "update", ![p].i = j,
                                       ![p].read = players[j]]
        /\ UNCHANGED <<players, matches, auth>>

\* updatePlayerSkillLevel: await db.update(players).set(...)
PassUpdate(p) ==
    LET j == procs[p].i
        newSkillLevel == NewSkillLevel(j, procs[p].allPlayers, procs[p].allMatches)
        written == SkillLevelWrite(procs[p].read, newSkillLevel, Now(players))
    IN  /\ AtPc(p, "update")
        /\ players' = [players EXCEPT ![j] = [players[j] EXCEPT
                           !.previousSkillLevel = written.previousSkillLevel,
                           !.skillLevel = written.skillLevel,
                           !.lastSkillUpdate = written.lastSkillUpdate]]
        /\ procs' = [procs EXCEPT ![p].pc = "loop", ![p].i = j + 1, ![p].read = <<>>]
        /\ UNCHANGED <<matches, auth>>

\* the store call a handler is waiting for rejects: the exception leaves
\* the storage method and the route answers 500
StoreFails(p) ==
    /\ procs[p].pc \notin {"idle", "failed"}
    /\ procs' = [procs EXCEPT ![p].pc = "failed", ![p].allPlayers = <<>>,
                              ![p].allMatches = <<>>, ![p].i = 0, ![p].read = <<>>]
    /\ UNCHANGED <<players, matches, auth>>

\* request inputs of the edit, delete and player routes
MatchEditIds == {1, MaxMatches + 1}
MatchDeleteIds == 1..(MaxMatches + 1)
UpdateInputs ==
    { [teamAScore |-> 21, teamBScore |-> 21],
      [teamBScore |-> 99],
      [winnerId |-> 3] }
PlayerUpdateInputs == { <<4, 7>>, <<4, 11>> }
PlayerDeleteIds == {3}

\* the roster is entered after the setup and before the first match
RosterOpen == IsInitialized(players) /\ matches = <<>>

\* the match and player lifecycle
Next ==
    \/ \E skill \in SetupInputs : PostSetup(skill)
    \/ \E skill \in SkillInputs : RosterOpen /\ PostPlayer(skill)
    \/ \E in \in MatchInputs : PostMatch(in[1], in[2], in[3])
    \/ \E id \in MatchEditIds, matchData \in UpdateInputs : PutMatch(id, matchData)
    \/ \E id \in MatchDeleteIds : DelMatch(id)

Spec == Init /\ [][Next]_vars

\* the lifecycle with the roster maintenance and the manual pass, over the
\* rosters of AdminSkillInputs
NextAdmin ==
    \/ \E skill \in SetupInputs : PostSetup(skill)
    \/ \E skill \in AdminSkillInputs : RosterOpen /\ PostPlayer(skill)
    \/ \E in \in PlayerUpdateInputs : PutPlayer(in[1], in[2])
    \/ \E id \in PlayerDeleteIds : DelPlayer(id)
    \/ \E in \in MatchInputs :
          Len(matches) < MaxAdminMatches /\ PostMatch(in[1], in[2], in[3])
    \/ \E id \in MatchEditIds, matchData \in UpdateInputs : PutMatch(id, matchData)
    \/ \E id \in MatchDeleteIds : DelMatch(id)

SpecAdmin == Init /\ [][NextAdmin]_vars

\* request inputs of the interleaved handlers
MaxConcMatches == 4
MaxServed == 1
ConcMatchInputs == { <<TeamA, <<21, 15>>, 1>> }
ConcUpdateInputs == { <<1, [teamAScore |-> 21, teamBScore |-> 21]>> }
ConcDeleteIds == {1}

\* no handler has a request in flight or behind it
AllFresh == \A p \in Procs : procs[p] = IdleProc

\* handler p takes a request
HandlerStart(p) ==
    \/ \E in \in ConcMatchInputs : StartCreateMatch(p, in[1], in[2], in[3])
    \/ \E in \in ConcUpdateInputs : StartUpdateMatch(p, in[1], in[2])
    \/ \E id \in ConcDeleteIds : StartDeleteMatch(p, id)
    \/ StartSkillLevelsUpdate(p)

\* handler p resumes from an await
HandlerStep(p) ==
    \/ RecalculateRead(p)
    \/ Backfill(p)
    \/ Reset(p)
    \/ PassReadPlayers(p)
    \/ PassReadMatches(p)
    \/ PassGetPlayer(p)
    \/ PassUpdate(p)

\* a history of requests served one at a time
History ==
    \/ \E skill \in SetupInputs : PostSetup(skill)
    \/ \E skill \in AdminSkillInputs : RosterOpen /\ PostPlayer(skill)
    \/ \E in \in ConcMatchInputs :
          Len(matches) < MaxConcMatches /\ PostMatch(in[1], in[2], in[3])

\* a history, then the handlers interleaved at their awaits, each serving
\* up to MaxServed requests
NextConc ==
    \/ AllFresh /\ History
    \/ \E p \in Procs : procs[p].served < MaxServed /\ HandlerStart(p)
    \/ \E p \in Procs : HandlerStep(p)

SpecConc == Init /\ [][NextConc]_vars

\* a history, then one handler whose store calls may fail
NextFail ==
    \/ AllFresh /\ History
    \/ procs[1].served < MaxServed /\ HandlerStart(1)
    \/ HandlerStep(1)
    \/ StoreFails(1)

SpecFail == Init /\ [][NextFail]_vars

\* a comparator that looks at the win rate only
CompareWinRateOnly(a, b) == b.winRate - a.winRate

\* the comparator of "Enhanced ranking logic for player stats"
Compare(a, b) ==
    IF a.winRate # b.winRate THEN b.winRate - a.winRate
    ELSE IF a.wins # b.wins THEN b.wins - a.wins
    ELSE b.pointDifference - a.pointDifference

\* x put into a sorted array behind every element that does not sort after it
InsertSorted(sorted, x) ==
    LET k == Cardinality({j \in 1..Len(sorted) : Compare(sorted[j], x) <= 0})
    IN  SubSeq(sorted, 1, k) \o <<x>> \o SubSeq(sorted, k + 1, Len(sorted))

RECURSIVE SortStats(_)
\* playerStats.sort(comparator): Array.prototype.sort is stable
SortStats(playerStats) ==
    IF playerStats = <<>> THEN <<>>
    ELSE InsertSorted(SortStats(SubSeq(playerStats, 1, Len(playerStats) - 1)),
                      playerStats[Len(playerStats)])

\* the playerStats field of the GET /api/stats response
RankedPlayerStats(db, ms) == SortStats(GetPlayerStats(db, ms))

\* rosters entered through the setup and createPlayer, then matches among
\* them, edits of the first match and deactivations
MaxRosterMatches == 3
RosterLevels == {3, 7}
RosterDeleteIds == {2, 3, 4}

Roster(l1, l2, l3, l4) ==
    LET r1 == <<SetupInitialManagerRow(<<>>, l1)>>
        r2 == Append(r1, CreatePlayerRow(r1, l2))
        r3 == Append(r2, CreatePlayerRow(r2, l3))
    IN  Append(r3, CreatePlayerRow(r3, l4))

InitRoster ==
    /\ players \in {Roster(l1, l2, l3, l4) : l1, l2, l3, l4 \in RosterLevels}
    /\ matches = <<>>
    /\ procs = [p \in Procs |-> IdleProc]
    /\ auth = NoAuth

NextRoster ==
    \/ \E in \in MatchInputs :
          Len(matches) < MaxRosterMatches /\ PostMatch(in[1], in[2], in[3])
    \/ \E id \in MatchEditIds, matchData \in UpdateInputs : PutMatch(id, matchData)
    \/ \E id \in RosterDeleteIds : DelPlayer(id)

SpecRoster == InitRoster /\ [][NextRoster]_vars

\* five players, matches between changing teams, edits and deactivations
MaxStatsMatches == 5
StatsLevels == {5}
StatsMatchInputs ==
    { <<(<<1, 2, 3, 4>>), <<21, 15>>, 1>>, <<(<<1, 2, 3, 4>>), <<15, 21>>, 1>>,
      <<(<<5, 1, 2, 3>>), <<21, 21>>, 1>>, <<(<<3, 4, 5, 1>>), <<15, 21>>, 1>> }
StatsDeleteIds == {2}

InitStats ==
    /\ players \in {Append(Roster(l1, l2, 5, 5), CreatePlayerRow(Roster(l1, l2, 5, 5), 5)) :
                        l1 \in StatsLevels, l2 \in RosterLevels}
    /\ matches = <<>>
    /\ procs = [p \in Procs |-> IdleProc]
    /\ auth = NoAuth

NextStats ==
    \/ \E in \in StatsMatchInputs :
          Len(matches) < MaxStatsMatches /\ PostMatch(in[1], in[2], in[3])
    \/ \E id \in MatchEditIds, matchData \in UpdateInputs : PutMatch(id, matchData)
    \/ \E id \in StatsDeleteIds : DelPlayer(id)

SpecStats == InitStats /\ [][NextStats]_vars

\* ------------------------------------------------- sessions and resets
\* storage.sendOTP: a code is stored for a player whose row exists
SendOtp(playerId) ==
    /\ IF playerId \in 1..Len(players)
       THEN auth' = [auth EXCEPT !.otpCodes = @ \cup {playerId}]
       ELSE UNCHANGED auth
    /\ UNCHANGED <<players, matches, procs>>

\* POST /api/auth/verify-otp: with the unused code of the player the code
\* is marked used and req.session.userId = playerId
VerifyOtp(playerId, codeMatches) ==
    /\ IF codeMatches /\ playerId \in auth.otpCodes
       THEN auth' = [auth EXCEPT !.otpCodes = @ \ {playerId},
                                 !.sessions = @ \cup {playerId}]
       ELSE UNCHANGED auth
    /\ UNCHANGED <<players, matches, procs>>

\* POST /api/auth/logout: req.session.destroy
Logout(session) ==
    /\ session \in auth.sessions
    /\ auth' = [auth EXCEPT !.sessions = @ \ {session}]
    /\ UNCHANGED <<players, matches, procs>>

\* the sessions a request can carry: those logged in, or none
Requesters == auth.sessions \cup {NULL}

\* POST /api/matches sent with a session: the handler does not read
\* req.session
PostMatchAs(session, team, score, bodyWinner) ==
    /\ session \in Requesters
    /\ PostMatch(team, score, bodyWinner)

\* storage.resetAllData: the three tables are emptied and currentUser set
\* to null; ids are serial and not reused, so the sessions of the deleted
\* players name no row any more and are dropped here
ResetAllData ==
    /\ players' = <<>>
    /\ matches' = <<>>
    /\ auth' = NoAuth
    /\ UNCHANGED procs

\* POST /api/auth/reset: "Data reset endpoint - Manager only", decided on
\* storage.getCurrentUser()
PostAuthReset(session) ==
    IF auth.currentUser = NULL \/ players[auth.currentUser].role # "manager"
    THEN UNCHANGED vars
    ELSE ResetAllData

\* POST /api/reset-data: "Reset all data (Manager only)"
PostResetData(session) == ResetAllData

\* a reset request to one of the two endpoints
ResetEndpoints == {"/api/auth/reset", "/api/reset-data"}

PostReset(endpoint, session) ==
    /\ session \in Requesters
    /\ IF endpoint = "/api/auth/reset" THEN PostAuthReset(session) ELSE PostResetData(session)

\* setup, roster, logins and logouts, matches and resets
MaxAuthMatches == 2
AuthSkillInputs == {5}
AuthIds == {1, 2}
AuthMatchInputs == { <<TeamA, <<21, 15>>, 1>>, <<TeamB, <<21, 21>>, 2>> }

NextAuth ==
    \/ \E skill \in SetupInputs : PostSetup(skill)
    \/ \E skill \in AuthSkillInputs : RosterOpen /\ PostPlayer(skill)
    \/ \E playerId \in AuthIds : SendOtp(playerId)
    \/ \E playerId \in AuthIds, codeMatches \in BOOLEAN : VerifyOtp(playerId, codeMatches)
    \/ \E session \in AuthIds : Logout(session)
    \/ \E session \in AuthIds \cup {NULL}, in \in AuthMatchInputs :
          Len(matches) < MaxAuthMatches /\ PostMatchAs(session, in[1], in[2], in[3])
    \/ \E session \in AuthIds \cup {NULL}, endpoint \in ResetEndpoints :
          PostReset(endpoint, session)

SpecAuth == Init /\ [][NextAuth]_vars

\* ------------------------------------------- verify-otp, await by await
\* storage.verifyOTP: the select of an unused, unexpired record with the
\* player's id and the code; without one the call returns false
StartVerifyOtp(p, playerId, codeMatches) ==
    /\ AtPc(p, "idle")
    /\ procs' = IF codeMatches /\ playerId \in auth.otpCodes
                THEN [procs EXCEPT ![p].pc = "markUsed", ![p].i = playerId]
                ELSE [procs EXCEPT ![p].served = @ + 1]
    /\ UNCHANGED <<players, matches, auth>>

\* storage.verifyOTP: await db.update(otpCodes).set({ isUsed: true }) for
\* the record selected
OtpMarkUsed(p) ==
    /\ AtPc(p, "markUsed")
    /\ auth' = [auth EXCEPT !.otpCodes = @ \ {procs[p].i}]
    /\ procs' = Set(p, "pc", "verified")
    /\ UNCHANGED <<players, matches>>

\* verifyOTP has returned true: req.session.userId = playerId and the
\* response
OtpLoggedIn(p) ==
    /\ AtPc(p, "verified")
    /\ auth' = [auth EXCEPT !.sessions = @ \cup {procs[p].i}]
    /\ procs' = [procs EXCEPT ![p] = [IdleProc EXCEPT !.served = procs[p].served + 1]]
    /\ UNCHANGED <<players, matches>>

\* the expiry time of a player's code passes: gt(otpCodes.expiresAt, new
\* Date()) selects it no longer
OtpExpires(playerId) ==
    /\ playerId \in auth.otpCodes
    /\ auth' = [auth EXCEPT !.otpCodes = @ \ {playerId}]
    /\ UNCHANGED <<players, matches, procs>>

\* setup, roster, codes sent and expiring, and verifications on two
\* interleaved handlers
NextOtp ==
    \/ \E skill \in SetupInputs : PostSetup(skill)
    \/ \E skill \in AuthSkillInputs : RosterOpen /\ PostPlayer(skill)
    \/ \E playerId \in AuthIds : SendOtp(playerId)
    \/ \E playerId \in AuthIds : OtpExpires(playerId)
    \/ \E p \in Procs, playerId \in AuthIds, codeMatches \in BOOLEAN :
          procs[p].served < MaxServed /\ StartVerifyOtp(p, playerId, codeMatches)
    \/ \E p \in Procs : OtpMarkUsed(p)
    \/ \E p \in Procs : OtpLoggedIn(p)

SpecOtp == Init /\ [][NextOtp]_vars

\* updatePlayerSkillLevel called with any player id and any level on a
\* manager and a player of any ratings
MaxUpdateTime == 4
UpdateLevels == (-2)..13
UpdateIds == {1, 2, 3}

InitUpdate ==
    /\ players \in {Append(<<SetupInitialManagerRow(<<>>, l1)>>,
                            CreatePlayerRow(<<SetupInitialManagerRow(<<>>, l1)>>, l2)) :
                        l1, l2 \in 1..10}
    /\ matches = <<>>
    /\ procs = [p \in Procs |-> IdleProc]
    /\ auth = NoAuth

\* storage.updatePlayerSkillLevel(playerId, newSkillLevel)
CallUpdatePlayerSkillLevel(playerId, newSkillLevel) ==
    /\ Now(players) <= MaxUpdateTime
    /\ players' = UpdatePlayerSkillLevel(players, playerId, newSkillLevel)
    /\ UNCHANGED <<matches, procs, auth>>

NextUpdate ==
    \E playerId \in UpdateIds, newSkillLevel \in UpdateLevels :
        CallUpdatePlayerSkillLevel(playerId, newSkillLevel)

SpecUpdate == InitUpdate /\ [][NextUpdate]_vars

\* rosters of four players rated 3 or 7, matches and edits of the first
\* match: the states a rating pass starts from
MaxPassMatches == 5

NextPass ==
    \/ \E in \in AuthMatchInputs :
          Len(matches) < MaxPassMatches /\ PostMatch(in[1], in[2], in[3])
    \/ \E id \in MatchEditIds, matchData \in UpdateInputs : PutMatch(id, matchData)

SpecPass == InitRoster /\ [][NextPass]_vars

\* PUT /api/matches/:id bodies that name players: a player already in the
\* match, an id no row has, and a plain score edit
MaxEditMatches == 2

EditMissingId == MaxPlayers + 5

EditInputs ==
    { [teamAPlayer2Id |-> 1],
      [teamBPlayer1Id |-> EditMissingId],
      [teamAScore |-> 15, teamBScore |-> 21] }

EditIds == {1, 2, MaxEditMatches + 2}

NextEdit ==
    \/ \E in \in AuthMatchInputs :
          Len(matches) < MaxEditMatches /\ PostMatch(in[1], in[2], in[3])
    \/ \E id \in EditIds, matchData \in EditInputs : PutMatch(id, matchData)

SpecEdit == InitRoster /\ [][NextEdit]_vars

\* ------------------------------------------------------------ claims
PlayerIds == 1..Len(players)

\* C1: every stored rating is an integer between 1 and 10, in every state
\* of the lifecycle and after a further pass from it
RatingInBounds ==
    \A i \in PlayerIds :
        /\ players[i].skillLevel \in 1..10
        /\ CheckForSkillLevelUpdates(players, matches)[i].skillLevel \in 1..10

\* the engine's view of player i in the current tables
MatchCount(i) == Len(PlayerMatches(matches, i))

Window(i) == RecentMatches(PlayerMatches(matches, i))

QualifiesUp(i) == PerformanceAbove(SumScore400(Window(i), i, players), Len(Window(i)))

QualifiesDown(i) == PerformanceBelow(SumScore400(Window(i), i, players), Len(Window(i)))

Active(i) == players[i].isActive

\* passes have committed changes and left at 10 a player rated 10 whose
\* window qualifies for an increase
RatingInBoundsWitness ==
    /\ \E i \in PlayerIds : players[i].previousSkillLevel # NULL
    /\ \E i \in PlayerIds :
          Active(i) /\ MatchCount(i) >= 5 /\ players[i].skillLevel = 10 /\ QualifiesUp(i)

\* C2: no recomputation event (the pass of createMatch, the reset and replay
\* of updateMatch and deleteMatch) moves a player's stored rating by more
\* than 1
RatingStepAtMostOne ==
    [][\A i \in PlayerIds :
          Abs(players'[i].skillLevel - players[i].skillLevel) <= 1]_vars

\* the ratings a recalculation leaves
Ratings(db) ==
    [i \in 1..Len(db) |-> <<db[i].skillLevel, db[i].previousSkillLevel,
                            db[i].originalSkillLevel>>]

RecalculatedOnce == RecalculateAllSkillLevels(players, matches)

RecalculatedTwice == RecalculateAllSkillLevels(RecalculatedOnce, matches)

\* C3: recalculateAllSkillLevels is idempotent: run twice in a row over the
\* same matches and players, the second run leaves every player's rating,
\* previous rating and original rating as the first run left them
RecalculateIdempotent == Ratings(RecalculatedTwice) = Ratings(RecalculatedOnce)

\* a recalculation that backfills the manager's original rating, moves a
\* stored rating and commits a change in its replay
RecalculateIdempotentWitness ==
    /\ \E i \in PlayerIds : Active(i) /\ players[i].originalSkillLevel = NULL
    /\ \E i \in PlayerIds : RecalculatedOnce[i].skillLevel # players[i].skillLevel
    /\ \E i \in PlayerIds : RecalculatedOnce[i].previousSkillLevel # NULL
    /\ \E i \in PlayerIds : ~Active(i)

\* C4: after any sequence of createMatch, updateMatch and deleteMatch every
\* player's rating is the rating recalculateAllSkillLevels yields from the
\* original ratings and the current matches (creation recalculates too, so
\* the ratings do not depend on the order of recording or on earlier
\* passes); stated for the states where every original rating is recorded
RatingsAreFromScratch ==
    (\A i \in PlayerIds : players[i].originalSkillLevel # NULL)
        => \A i \in PlayerIds : players[i].skillLevel = RecalculatedOnce[i].skillLevel

\* C5: rating passes exclude one another, so whatever the interleaving of
\* two concurrent triggers (createMatch, updateMatch, deleteMatch, the manual
\* pass), no player is left with a previous rating equal to the rating
PreviousDiffersFromRating ==
    \A i \in PlayerIds :
        players[i].previousSkillLevel # NULL
            => players[i].previousSkillLevel # players[i].skillLevel

\* rating, previous rating and time of the last rating update of every row
RatingFields(db) ==
    [i \in 1..Len(db) |-> <<db[i].skillLevel, db[i].previousSkillLevel,
                            db[i].lastSkillUpdate>>]

\* C6: when a store call fails during a recomputation (the pass after
\* createMatch, the reset and replay after updateMatch or deleteMatch) the
\* request ends in an error and every player's rating, previous rating and
\* update time are what they were before the request: all or nothing
FailureLeavesRatings ==
    \A p \in Procs :
        procs[p].pc = "failed" => RatingFields(players) = RatingFields(procs[p].before)

\* a step of one of the match routes, each of which ends in an engine run
EngineStep ==
    \/ \E in \in MatchInputs : PostMatch(in[1], in[2], in[3])
    \/ \E id \in MatchEditIds, matchData \in UpdateInputs : PutMatch(id, matchData)
    \/ \E id \in MatchDeleteIds : DelMatch(id)

\* C7: an engine run (the pass after createMatch, the recalculation after
\* updateMatch and deleteMatch) leaves the stored rating of every player
\* with 0, 1 or 2 recorded matches as it was
FewMatchesKeepRating ==
    [][\A i \in PlayerIds :
          Len(PlayerMatches(matches', i)) <= 2
              => players'[i].skillLevel = players[i].skillLevel \/ ~EngineStep]_vars

\* the row a recalculation leaves when its replay does not commit
ResetOnly(row) == ResetRow(BackfillOriginal(row), row)

FiveEqualWins(i) ==
    /\ Active(i) /\ MatchCount(i) >= 5
    /\ \A k \in 1..Len(Window(i)) :
          /\ PlayerWon(Window(i)[k], i)
          /\ Len(OpponentSkillLevels(Window(i)[k], i, players)) = 2
          /\ SkillDifference2(Window(i)[k], i, players) = 0

\* C9: a player with at least 5 matches whose 5 most recent are all wins
\* against opposing pairs of the player's own average rating is raised by
\* exactly 1 by one pass, or stays at 10
FiveWinsRaiseByOne ==
    \A i \in PlayerIds :
        FiveEqualWins(i)
            => CheckForSkillLevelUpdates(players, matches)[i].skillLevel
                   = Min(players[i].skillLevel + 1, 10)

\* the rows the pass of a match step reads: the stored rows after a
\* creation, the reset rows after an edit or a deletion
PassInput ==
    IF Len(matches') > Len(matches) THEN players
    ELSE [j \in 1..Len(players) |-> ResetOnly(players[j])]

\* player i, rated 5, has a window of 4 recorded wins and 1 loss, each
\* against two opponents rated 5 and each with equal scores
FourWinsOneLoss(i, allPlayers, allMatches) ==
    LET window == RecentMatches(PlayerMatches(allMatches, i))
    IN  /\ allPlayers[i].isActive /\ allPlayers[i].skillLevel = 5
        /\ Len(window) = 5
        /\ Cardinality({k \in 1..5 : PlayerWon(window[k], i)}) = 4
        /\ \A k \in 1..5 :
              /\ OpponentSkillLevels(window[k], i, allPlayers) = <<5, 5>>
              /\ PointDifference(window[k], i) = 0

\* C10: a player rated 5 with 4 wins and 1 loss in the window, all against
\* equal-rated opponents and with zero point difference, has avgPerformance
\* 0.6 (a sum of 3.0 over 5 matches) and leaves the pass at rating 6 with
\* previous rating 5
FourWinsOneLossRaise ==
    [][matches' # matches =>
         \A i \in PlayerIds :
             FourWinsOneLoss(i, PassInput, matches')
                 => /\ SumScore400(RecentMatches(PlayerMatches(matches', i)),
                                   i, PassInput) = 1200
                    /\ players'[i].skillLevel = 6
                    /\ players'[i].previousSkillLevel = 5]_vars

\* the pass over allPlayers and allMatches finds player i at a bound with a
\* score that asks to cross it
AtBound(i, allPlayers, allMatches) ==
    LET window == RecentMatches(PlayerMatches(allMatches, i))
        sum400 == SumScore400(window, i, allPlayers)
    IN  /\ allPlayers[i].isActive
        /\ Len(PlayerMatches(allMatches, i)) >= 3
        /\ \/ allPlayers[i].skillLevel = 10 /\ PerformanceAbove(sum400, Len(window))
           \/ allPlayers[i].skillLevel = 1 /\ PerformanceBelow(sum400, Len(window))

\* C11: a pass that finds a player rated 10 with avgPerformance > 0.5, or
\* rated 1 with avgPerformance < -0.5, leaves the player's rating, previous
\* rating and update time unchanged (the manual pass from any state, and
\* the pass of createMatch)
NoCommitAtBound ==
    [][\A i \in PlayerIds :
          /\ AtBound(i, players, matches)
                => CheckForSkillLevelUpdates(players, matches)[i] = players[i]
          /\ Len(matches') > Len(matches) /\ AtBound(i, players, matches')
                => players'[i] = players[i]]_vars

\* a pass that commits a change for one player while another, with 5 or
\* more matches, sits at a bound with a score that asks to cross it
NoCommitAtBoundWitness ==
    /\ \E i \in PlayerIds : AtBound(i, players, matches) /\ MatchCount(i) >= 5
    /\ \E j \in PlayerIds : CheckForSkillLevelUpdates(players, matches)[j] # players[j]

\* the opponents of player i in match m whose record the pass finds
FoundOpponents(m, i) ==
    {o \in (IF IsTeamA(m, i) THEN {m.teamBPlayer1Id, m.teamBPlayer2Id}
                             ELSE {m.teamAPlayer1Id, m.teamAPlayer2Id}) :
        Found(players, o)}

\* the matches of an active player, as pairs of player and match
Appearances ==
    {<<i, k>> \in PlayerIds \X (1..Len(matches)) : Active(i) /\ Involves(matches[k], i)}

WinnerHasHigherScore ==
    \A k \in 1..Len(matches) :
        /\ matches[k].teamAScore # matches[k].teamBScore
        /\ matches[k].winnerId = 1 <=> matches[k].teamAScore > matches[k].teamBScore
        /\ matches[k].winnerId = 2 <=> matches[k].teamBScore > matches[k].teamAScore

\* the player statistics GET /api/stats returns in the current state
Ranked == RankedPlayerStats(players, matches)

\* C14: for any two consecutive records a before b of the ranked player
\* statistics, a.winRate > b.winRate, or the win rates are equal and
\* a.wins > b.wins, or both are equal and a.pointDifference >= b.pointDifference
StatsAreRanked ==
    LET ranked == Ranked
    IN  \A k \in 1..(Len(ranked) - 1) :
            LET a == ranked[k]
                b == ranked[k + 1]
            IN  \/ a.winRate > b.winRate
                \/ a.winRate = b.winRate /\ a.wins > b.wins
                \/ a.winRate = b.winRate /\ a.wins = b.wins
                      /\ a.pointDifference >= b.pointDifference

\* the pairs of positions at which the ranking has put a record in front
\* of one with a smaller player id
Overtakes ==
    {<<k, l>> \in (1..Len(Ranked)) \X (1..Len(Ranked)) :
        k < l /\ Ranked[k].playerId > Ranked[l].playerId}

\* the ranking has moved records forward on each of the three keys: win
\* rate, wins at equal win rate, point difference at equal win rate and wins
StatsAreRankedWitness ==
    /\ \E o \in Overtakes : Ranked[o[1]].winRate > Ranked[o[2]].winRate
    /\ \E o \in Overtakes :
          /\ Ranked[o[1]].winRate = Ranked[o[2]].winRate
          /\ Ranked[o[1]].wins > Ranked[o[2]].wins
    /\ \E o \in Overtakes :
          /\ Ranked[o[1]].winRate = Ranked[o[2]].winRate
          /\ Ranked[o[1]].wins = Ranked[o[2]].wins
          /\ Ranked[o[1]].pointDifference > Ranked[o[2]].pointDifference

\* the decision target of player i as the claims state it: over the last 3
\* matches when the player has fewer than 5, else over the last 5
Target(i) ==
    LET playerMatches == PlayerMatches(matches, i)
        window == SubSeq(playerMatches, 1,
                         Min(Len(playerMatches), IF Len(playerMatches) < 5 THEN 3 ELSE 5))
        sum400 == SumScore400(window, i, players)
        rating == players[i].skillLevel
    IN  IF 2 * sum400 > 400 * Len(window) /\ rating < 10 THEN rating + 1
        ELSE IF 2 * sum400 < -(400 * Len(window)) /\ rating > 1 THEN rating - 1
        ELSE rating

\* the entries for player i in a getSkillLevelSuggestions result
EntriesOf(suggestions, i) ==
    {suggestions[k] : k \in {j \in 1..Len(suggestions) : suggestions[j].playerId = i}}

\* the entries getSkillLevelSuggestions returns for player i
SuggestionsOf(i) == EntriesOf(GetSkillLevelSuggestions(players, matches), i)

\* C15: getSkillLevelSuggestions has an entry for a player exactly when the
\* player has at least 3 matches and the decision target differs from the
\* rating; the entry's suggestedLevel is the target, and matchesNeeded is
\* 5 - totalMatches with 3 or 4 matches and absent with 5 or more
SuggestionIffTargetDiffers ==
    LET suggestions == GetSkillLevelSuggestions(players, matches)
    IN  \A i \in PlayerIds :
            LET target == Target(i)
                count == MatchCount(i)
                entries == EntriesOf(suggestions, i)
            IN  Active(i) =>
                    /\ entries # {} <=> count >= 3 /\ target # players[i].skillLevel
                    /\ \A e \in entries :
                          /\ e.suggestedLevel = target
                          /\ count \in {3, 4} => e.matchesNeeded = 5 - count
                          /\ count >= 5 => e.matchesNeeded = NULL

\* one state holds an entry with matchesNeeded set and an entry without it,
\* one suggestion upwards and one downwards, and a player with at least 3
\* matches and no entry
SuggestionIffTargetDiffersWitness ==
    /\ \E i \in PlayerIds : \E e \in SuggestionsOf(i) : e.matchesNeeded \in {1, 2}
    /\ \E i \in PlayerIds : \E e \in SuggestionsOf(i) :
          MatchCount(i) >= 5 /\ e.matchesNeeded = NULL
    /\ \E i \in PlayerIds : \E e \in SuggestionsOf(i) : e.suggestedLevel > e.currentLevel
    /\ \E i \in PlayerIds : \E e \in SuggestionsOf(i) : e.suggestedLevel < e.currentLevel
    /\ \E i \in PlayerIds : Active(i) /\ MatchCount(i) >= 3 /\ SuggestionsOf(i) = {}

\* the record getPlayerStats returns for player i
StatsOf(i) == PlayerStats(i, players, matches)

\* C16: for every player with at least 3 matches the suggestion fields of
\* getPlayerStats agree with the engine's decision: suggestedRating and
\* direction are those of the decision target, and no suggestion field is
\* set when the target equals the rating
StatsSuggestionIsTarget ==
    \A i \in PlayerIds :
        Active(i) /\ MatchCount(i) >= 3 =>
            LET target == Target(i)
                stats == StatsOf(i)
            IN  /\ target > players[i].skillLevel
                      => stats.suggestedSkillLevel = target /\ stats.suggestion = "increase"
                /\ target < players[i].skillLevel
                      => stats.suggestedSkillLevel = target /\ stats.suggestion = "decrease"
                /\ target = players[i].skillLevel
                      => stats.suggestedSkillLevel = NULL /\ stats.suggestion = Undefined

\* the indices of the recorded matches player i played in
PlayedBy(i) == {k \in 1..Len(matches) : Involves(matches[k], i)}

\* player i is on the team recorded as winner of match k
WonBy(k, i) ==
    \/ i \in {matches[k].teamAPlayer1Id, matches[k].teamAPlayer2Id} /\ matches[k].winnerId = 1
    \/ i \in {matches[k].teamBPlayer1Id, matches[k].teamBPlayer2Id} /\ matches[k].winnerId = 2

\* the points of player i's team minus those of the other team in match k
Margin(k, i) ==
    IF i \in {matches[k].teamAPlayer1Id, matches[k].teamAPlayer2Id}
    THEN matches[k].teamAScore - matches[k].teamBScore
    ELSE matches[k].teamBScore - matches[k].teamAScore

RECURSIVE MarginSum(_, _)
\* the margins of player i summed over a set of matches
MarginSum(ks, i) ==
    IF ks = {} THEN 0
    ELSE LET k == CHOOSE x \in ks : TRUE
         IN  Margin(k, i) + MarginSum(ks \ {k}, i)

\* 100 * wins / total rounded to the nearest integer, halves upwards
Percent(wins, total) ==
    CHOOSE r \in 0..100 : 2 * total * r - total <= 200 * wins /\ 200 * wins < 2 * total * r + total

\* C17: getPlayerStats reports totalMatches as the number of matches the
\* player played in, wins and losses over all of them with wins + losses =
\* totalMatches, winRate = round(100 * wins / totalMatches) (0 without
\* matches, 67 for 2 wins of 3) and pointDifference = pointsFor -
\* pointsAgainst, the margin summed over all those matches
StatsCountAllMatches ==
    \A i \in PlayerIds :
        Active(i) =>
            LET stats == StatsOf(i)
                won == {k \in PlayedBy(i) : WonBy(k, i)}
            IN  /\ stats.totalMatches = Cardinality(PlayedBy(i))
                /\ stats.wins = Cardinality(won)
                /\ stats.wins + stats.losses = stats.totalMatches
                /\ stats.totalMatches = 0 => stats.winRate = 0
                /\ stats.totalMatches > 0
                      => stats.winRate = Percent(stats.wins, stats.totalMatches)
                /\ stats.totalMatches = 3 /\ stats.wins = 2 => stats.winRate = 67
                /\ stats.pointDifference = stats.pointsFor - stats.pointsAgainst
                /\ stats.pointDifference = MarginSum(PlayedBy(i), i)

\* one state holds a player with 2 wins of 3, a player with a win rate
\* that is rounded down, a player without matches and a player whose
\* margins sum to a negative number
StatsCountAllMatchesWitness ==
    /\ \E i \in PlayerIds : Active(i) /\ StatsOf(i).totalMatches = 3 /\ StatsOf(i).wins = 2
    /\ \E i \in PlayerIds :
          Active(i) /\ StatsOf(i).winRate * StatsOf(i).totalMatches < 100 * StatsOf(i).wins
    /\ \E i \in PlayerIds : Active(i) /\ StatsOf(i).pointDifference < 0
    /\ \E i \in PlayerIds : ~Active(i) /\ PlayedBy(i) # {}

\* the 3 most recent matches of player i (all of them when there are fewer)
LastThree(i) ==
    {k \in PlayedBy(i) : Cardinality({l \in PlayedBy(i) : l > k}) < 3}

\* C18: recentTrend depends only on the 3 most recent matches of the
\* player: unset with fewer than 3 matches, otherwise improving when the
\* rounded win rate over those 3 is >= 67, declining when it is <= 33,
\* stable in the remaining case
TrendFromLastThree ==
    \A i \in PlayerIds :
        Active(i) =>
            LET trend == StatsOf(i).recentPerformance
                rate == Percent(Cardinality({k \in LastThree(i) : WonBy(k, i)}), 3)
            IN  IF Cardinality(PlayedBy(i)) < 3 THEN trend = Undefined
                ELSE IF rate >= 67 THEN trend = "improving"
                ELSE IF rate <= 33 THEN trend = "declining"
                ELSE trend = "stable"

\* one state holds a player with 5 matches whose last 3 are improving
\* although only 3 of the 5 are won, a declining player and a player with
\* fewer than 3 matches
TrendFromLastThreeWitness ==
    /\ \E i \in PlayerIds :
          /\ Active(i) /\ Cardinality(PlayedBy(i)) = 5
          /\ StatsOf(i).wins = 3
          /\ StatsOf(i).recentPerformance = "improving"
    /\ \E i \in PlayerIds : Active(i) /\ StatsOf(i).recentPerformance = "declining"
    /\ \E i \in PlayerIds :
          Active(i) /\ PlayedBy(i) # {} /\ StatsOf(i).recentPerformance = Undefined

\* the request carries the session of a logged-in manager
IsManager(session) ==
    /\ session \in auth.sessions
    /\ session \in 1..Len(players)
    /\ players[session].role = "manager"

\* C19: a match is created through POST /api/matches only when the
\* requester is a logged-in manager: a request with a player's session or
\* with no session creates no match and triggers no rating pass
MatchOnlyByManager ==
    [][\A session \in AuthIds \cup {NULL}, in \in AuthMatchInputs :
          PostMatchAs(session, in[1], in[2], in[3]) /\ ~IsManager(session)
              => matches' = matches /\ players' = players]_vars

\* C20: all application data is deleted only on request of a logged-in
\* manager: neither reset endpoint runs resetAllData for a player's
\* session or for a request with no session
ResetOnlyByManager ==
    [][\A session \in AuthIds \cup {NULL}, endpoint \in ResetEndpoints :
          PostReset(endpoint, session) /\ ~IsManager(session)
              => players' = players /\ matches' = matches /\ auth' = auth]_vars

\* a successful updateMatch or deleteMatch
RecalculationStep ==
    \/ \E id \in MatchEditIds, matchData \in UpdateInputs :
          /\ ValidPartialMatch(matchData) /\ id \in 1..Len(matches)
          /\ PutMatch(id, matchData)
    \/ \E id \in MatchDeleteIds : id \in 1..Len(matches) /\ DelMatch(id)

\* the row is at its original rating with previousSkillLevel and
\* lastSkillUpdate cleared
AtOriginal(row) ==
    /\ row.skillLevel = row.originalSkillLevel
    /\ row.previousSkillLevel = NULL
    /\ row.lastSkillUpdate = NULL

\* the row is one step from its original rating, which is its previous one
OneStepFromOriginal(row) ==
    /\ row.previousSkillLevel = row.originalSkillLevel
    /\ Abs(row.skillLevel - row.originalSkillLevel) = 1

UpdateIsClampedStep ==
    \A id \in UpdateIds, n \in UpdateLevels :
        LET after == UpdatePlayerSkillLevel(players, id, n)
        IN  IF id \in PlayerIds
            THEN LET old == players[id].skillLevel
                     r == after[id].skillLevel
                 IN  /\ r \in 1..10
                     /\ Abs(r - old) <= 1
                     /\ n >= old => r >= old
                     /\ n <= old => r <= old
                     /\ Abs(n - r) <= Abs(n - old)
                     /\ after[id].previousSkillLevel = old
                     /\ \A j \in PlayerIds \ {id} : after[j] = players[j]
            ELSE after = players

\* calls have moved one player a step up from the previous rating, another
\* a step down, and a call with a level above 10 on a player rated 10 is
\* possible
UpdateIsClampedStepWitness ==
    /\ \E i \in PlayerIds :
          players[i].previousSkillLevel # NULL
              /\ players[i].skillLevel = players[i].previousSkillLevel + 1
    /\ \E i \in PlayerIds :
          players[i].previousSkillLevel # NULL
              /\ players[i].skillLevel = players[i].previousSkillLevel - 1
    /\ \E i \in PlayerIds : players[i].skillLevel \in {1, 10}

\* C23: for every issued OTP record at most one verifyOTP call returns
\* true under any interleaving, and no call returns true for a record that
\* is already marked used or past its expiry: a call that goes on to
\* return true finds its record still unused and unexpired
OtpVerifiedOnce ==
    [][\A p \in Procs : OtpMarkUsed(p) => procs[p].i \in auth.otpCodes]_vars

\* the ratings a pass writes: rating and previous rating of every player
WrittenRatings(db) == [i \in 1..Len(db) |-> <<db[i].skillLevel, db[i].previousSkillLevel>>]

\* C24: the ratings written by one rating pass are the same for every
\* order in which the players are processed: each score is computed from
\* the ratings read at the start of the pass
PassOrderIndependent ==
    LET inOrder == WrittenRatings(CheckForSkillLevelUpdates(players, matches))
    IN  \A order \in Permutations(PlayerIds) :
            WrittenRatings(PassOver(players, players, matches, order, 1)) = inOrder

\* a pass from this state commits changes for two players who met as
\* opponents in a match of the window
PassOrderIndependentWitness ==
    \E i, j \in PlayerIds :
        /\ i # j
        /\ Commits(i, players, matches) /\ Commits(j, players, matches)
        /\ \E k \in 1..Len(Window(i)) : j \in FoundOpponents(Window(i)[k], i)

\* C25: for every match in a player's window the per-match score is
\* strictly positive when the player's team is the recorded winner and
\* strictly negative when it is the recorded loser
ScoreSignFollowsResult ==
    \A i \in PlayerIds :
        Active(i) /\ MatchCount(i) >= 3 =>
            \A k \in 1..Len(Window(i)) :
                IF PlayerWon(Window(i)[k], i)
                THEN MatchScore400(Window(i)[k], i, players) > 0
                ELSE MatchScore400(Window(i)[k], i, players) < 0

\* C26: in every state reached by sequential createMatch, updateMatch and
\* deleteMatch each player has previousRating unset or one step from the
\* rating, so the reported skillLevelChange is never "unchanged"
PreviousOneStepAway ==
    \A i \in PlayerIds :
        /\ \/ players[i].previousSkillLevel = NULL
           \/ Abs(players[i].skillLevel - players[i].previousSkillLevel) = 1
        /\ Active(i) => StatsOf(i).skillLevelChange # "unchanged"

\* passes have raised one player twice and lowered another
PreviousOneStepAwayWitness ==
    /\ \E i \in PlayerIds :
          /\ players[i].originalSkillLevel # NULL
          /\ players[i].skillLevel = players[i].originalSkillLevel + 2
          /\ StatsOf(i).skillLevelChange = "increased"
    /\ \E i \in PlayerIds : Active(i) /\ StatsOf(i).skillLevelChange = "decreased"

\* C27: getPlayerStats never reports the trend "stable": for every player
\* with at least 3 matches it is improving when at least 2 of the 3 most
\* recent matches were won and declining otherwise
TrendNeverStable ==
    \A i \in PlayerIds :
        Active(i) =>
            LET trend == StatsOf(i).recentPerformance
                won == Cardinality({k \in LastThree(i) : WonBy(k, i)})
            IN  /\ trend # "stable"
                /\ Cardinality(PlayedBy(i)) >= 3
                      => trend = (IF won >= 2 THEN "improving" ELSE "declining")

\* one state holds players with 0, 1, 2 and 3 wins in their 3 most recent
\* matches
TrendNeverStableWitness ==
    \A won \in 0..3 :
        \E i \in PlayerIds :
            /\ Active(i) /\ Cardinality(PlayedBy(i)) >= 3
            /\ Cardinality({k \in LastThree(i) : WonBy(k, i)}) = won

\* the four player ids a stored match names
NamedIds(m) == <<m.teamAPlayer1Id, m.teamAPlayer2Id, m.teamBPlayer1Id, m.teamBPlayer2Id>>

\* C28: after any sequence of POST /api/matches and PUT /api/matches/:id,
\* every stored match names four pairwise distinct ids, each the id of a
\* player row
MatchNamesFourPlayers ==
    \A k \in 1..Len(matches) :
        LET ids == NamedIds(matches[k])
        IN  /\ Cardinality({ids[j] : j \in 1..4}) = 4
            /\ \A j \in 1..4 : ids[j] \in 1..Len(players)

\* C29: in every record of getPlayerStats the direction matches the
\* suggested rating: increase means rating + 1, decrease means rating - 1
\* and maintain means the rating itself
DirectionMatchesSuggested ==
    \A i \in PlayerIds :
        Active(i) =>
            LET stats == StatsOf(i)
            IN  /\ stats.suggestion = "increase"
                      => stats.suggestedSkillLevel = stats.skillLevel + 1
                /\ stats.suggestion = "decrease"
                      => stats.suggestedSkillLevel = stats.skillLevel - 1
                /\ stats.suggestion = "maintain"
                      => stats.suggestedSkillLevel = stats.skillLevel

\* C30: every state is reached by a request whose last step was the rating
\* pass; running checkForSkillLevelUpdates again from it, with the same
\* matches and players, changes no rating and no previous rating
SecondPassChangesNothing ==
    WrittenRatings(CheckForSkillLevelUpdates(players, matches)) = WrittenRatings(players)

====
